---- MODULE Spec2Model ----
(***************************************************************************)
(* PaymentJob operator (src/operator/main.py) and payment worker           *)
(* (src/worker/main.py).                                                   *)
(*                                                                         *)
(* Spec        : the reconciler of one PaymentJob resource: the create,    *)
(*               update and timer handlers against the cluster's Job.      *)
(* NameSpec    : get_job_name called with any name and namespace.          *)
(* EnvSpec     : the worker's configuration read from any environment,     *)
(*               followed by setup.                                        *)
(* WorkerSpec  : the worker process: setup with its retry loops, the       *)
(*               consumer loop (one delivery at a time: parse,             *)
(*               insert+commit, ack / nack), SIGINT, crash and restart.    *)
(* WorkerLive  : the worker without a processing cap, signal or crash,     *)
(*               with the fairness of a broker that keeps delivering and   *)
(*               a storage outage that ends.                               *)
(***************************************************************************)
EXTENDS Integers, Sequences, FiniteSets, TLC

VARIABLES
    \* ---- operator ----
    job,        \* the cluster's Job of this PaymentJob: NoJob or its .status
    status,     \* the PaymentJob's .status, a Python dict (function on its keys)
    now,        \* wall clock, in timer intervals
    events,     \* events posted so far (kopf.info / kopf.warn): reason -> count
    jobsCreated,\* Jobs the cluster accepted from create_namespaced_job so far
    last,       \* the last handler invocation: what it did
    adopted,    \* whether the create handler has found the Job already there
    named,      \* a call of get_job_name: its arguments and the value returned
    \* ---- worker ----
    environ,    \* os.environ: the names of the configuration variables set
    maxMessages,\* the module global MAX_MESSAGES after lines 46-48
    bodies,     \* message -> body bytes
    ready,      \* messages in the queue, ready for delivery
    cur,        \* the delivery being handled (or the last one handled)
    pc,         \* where the consumer is
    pgConn,     \* self.pg_conn: the state of the connection object it holds
    dbUp,       \* whether PostgreSQL accepts connections and statements
    rows,       \* message -> number of rows of table payments holding it
    acked,      \* messages positively acknowledged (removed from the queue)
    dropped,    \* messages nacked with requeue=False (removed from the queue)
    processed,  \* self.messages_processed
    outages,    \* storage outages so far
    attempt,    \* `attempt` of the retry loop running (or of the one that gave up)
    exitStatus, \* the status the worker process exited with, None while it runs
    crashes,    \* the worker's crashes so far: how many, and per message how
                \* many fell between its commit and its acknowledgment
    rmqConn,    \* self.rmq_conn: the state of the connection object it holds
    replaced    \* storage connections this process opened and then replaced
                \* by a reconnect, never closed

opVars == <<job, status, now, events, jobsCreated, last, adopted, named>>
wkVars == <<environ, maxMessages, bodies, ready, cur, pc, pgConn, dbUp, rows,
            acked, dropped, processed, outages, attempt, exitStatus, crashes,
            rmqConn, replaced>>
vars == <<job, status, now, events, jobsCreated, last, adopted, named,
          environ, maxMessages, bodies, ready, cur, pc, pgConn, dbUp, rows,
          acked, dropped, processed, outages, attempt, exitStatus, crashes,
          rmqConn, replaced>>

(***************************************************************************)
(* Bounds of the model.                                                    *)
(***************************************************************************)
MaxTime == 3        \* timer ticks explored
MaxCap == 2         \* largest MAX_MESSAGES explored
NumMsgs == 2        \* messages published to the queue
MaxOutages == 1     \* storage outages explored
MaxNameLen == 45    \* longest resource name explored
MaxCrashes == 1     \* worker crashes explored

(***************************************************************************)
(* Python values.  An optional value is <<>> (None) or <<v>>.              *)
(***************************************************************************)
None == <<>>
Some(v) == <<v>>

\* d.get(k, default) of a dict
Get(d, k, default) == IF k \in DOMAIN d THEN d[k] ELSE default

\* the status after a merge patch
Merge(d, patch) == patch @@ d

EmptyDict == <<>>

(***************************************************************************)
(* OPERATOR: src/operator/main.py                                          *)
(***************************************************************************)
Name == "checkout"
Namespace == "billing"

\* the characters of names, namespaces and of the digest's input
Alphabet == "abcdefghijklmnopqrstuvwxyz0123456789-./"

HexDigits == "0123456789abcdef"

CharAt(s, i) == SubSeq(s, i, i)

CharCode(c) == CHOOSE i \in 1..Len(Alphabet) : CharAt(Alphabet, i) = c

\* v as n lowercase hexadecimal digits, zero padded
RECURSIVE Hex(_, _)
Hex(v, n) ==
    IF n = 0 THEN "" ELSE Hex(v \div 16, n - 1) \o CharAt(HexDigits, (v % 16) + 1)

\* a 16-bit word of the digest of s, one word per multiplier
RECURSIVE DigestWord(_, _)
DigestWord(s, mult) ==
    IF Len(s) = 0 THEN 5381 % 65536
    ELSE (DigestWord(SubSeq(s, 1, Len(s) - 1), mult) * mult
          + CharCode(CharAt(s, Len(s)))) % 65536

\* hashlib.sha256(s.encode()).hexdigest(): SHA-256 itself is not computed;
\* what is kept of it is a function of the input alone, rendered as lowercase
\* hexadecimal digits, of which these are the leading 16
Sha256HexDigest(s) ==
    Hex(DigestWord(s, 31), 4) \o Hex(DigestWord(s, 33), 4)
    \o Hex(DigestWord(s, 37), 4) \o Hex(DigestWord(s, 41), 4)

HashLen == 8        \* hexdigest()[:8]
MaxBaseLen == 54    \* len(base_name) > 54

\* mutant: the base name is not truncated
get_job_name_untruncated(paymentjob_name, namespace) ==
    LET hash_input == namespace \o "/" \o paymentjob_name
        short_hash == SubSeq(Sha256HexDigest(hash_input), 1, HashLen)
        base_name == "paymentjob-" \o paymentjob_name
    IN base_name \o "-" \o short_hash

\* get_job_name(paymentjob_name, namespace)
get_job_name(paymentjob_name, namespace) ==
    LET hash_input == namespace \o "/" \o paymentjob_name
        short_hash == SubSeq(Sha256HexDigest(hash_input), 1, HashLen)
        base_name == "paymentjob-" \o paymentjob_name
        truncated == IF Len(base_name) > MaxBaseLen
                     THEN SubSeq(base_name, 1, MaxBaseLen)
                     ELSE base_name
    IN truncated \o "-" \o short_hash

\* the Job name of the resource the handlers reconcile
JobName == get_job_name(Name, Namespace)

\* a status message: its text and the number formatted into it (0: none)
Msg(text, n) == [text |-> text, n |-> n]

\* V1JobStatus counters: None or an integer
Counters == {None, Some(0), Some(1)}

\* V1JobStatus.conditions as the API returns it: None or a list
Conditions ==
    { None,
      <<[type |-> "Suspended", status |-> "False", message |-> None],
        [type |-> "Failed", status |-> "True", message |-> Some("BackoffLimitExceeded")]>> }

JobStatuses ==
    [active : Counters, succeeded : Counters, failed : Counters,
     conditions : Conditions]

\* the Job as create_namespaced_job leaves it: no counter reported yet
NewJob(job_name) ==
    [name |-> job_name,
     status |-> [active |-> None, succeeded |-> None, failed |-> None,
                 conditions |-> None]]

\* Python's `c and c > 0` on an optional counter
Positive(c) == c # None /\ c[1] # 0 /\ c[1] > 0

\* mutant: a lookup that never finds the Job (a name that is not the one created)
read_namespaced_job_never_found(job_name) == None

\* read_namespaced_job(job_name, namespace): the Job, or None for a 404
read_namespaced_job(job_name) ==
    IF job # None /\ job[1].name = job_name THEN job ELSE None

\* the loop over job_status.conditions: the message of the first condition
\* of type Failed with status True (`condition.message or 'Job failed'`),
\* None when there is none
RECURSIVE FailedConditionMessage(_)
FailedConditionMessage(conds) ==
    IF conds = None THEN None
    ELSE LET c == Head(conds) IN
         IF c.type = "Failed" /\ c.status = "True"
         THEN IF c.message # None THEN Some(Msg(c.message[1], 0))
              ELSE Some(Msg("Job failed", 0))
         ELSE FailedConditionMessage(Tail(conds))

\* mutant: the if-chain with the active counter tested first
DerivePhaseActiveFirst(js) ==
    IF Positive(js.active)
    THEN [phase |-> "Running",
          message |-> Msg("Job is running (N active pod(s))", js.active[1])]
    ELSE IF Positive(js.succeeded)
    THEN [phase |-> "Succeeded", message |-> Msg("Job completed successfully", 0)]
    ELSE IF Positive(js.failed)
    THEN [phase |-> "Failed",
          message |-> Msg("Job failed after N attempt(s)", js.failed[1])]
    ELSE [phase |-> "Pending", message |-> Msg("Waiting for pod to start", 0)]

\* monitor_job_status, the if-chain that determines new_phase and message
DerivePhase(js) ==
    IF Positive(js.succeeded)
    THEN [phase |-> "Succeeded", message |-> Msg("Job completed successfully", 0)]
    ELSE IF Positive(js.failed)
    THEN [phase |-> "Failed",
          message |-> LET m == FailedConditionMessage(js.conditions) IN
                      IF m # None THEN m[1]
                      ELSE Msg("Job failed after N attempt(s)", js.failed[1])]
    ELSE IF Positive(js.active)
    THEN [phase |-> "Running",
          message |-> Msg("Job is running (N active pod(s))", js.active[1])]
    ELSE [phase |-> "Pending", message |-> Msg("Waiting for pod to start", 0)]

\* create_paymentjob, the phase it derives from a Job that already exists
ExistingJobPhase(js) ==
    IF Positive(js.active) THEN "Running"
    ELSE IF Positive(js.succeeded) THEN "Succeeded"
    ELSE IF Positive(js.failed) THEN "Failed"
    ELSE "Pending"

\* update_paymentjob_status: the status patch (job_name, message optional)
update_paymentjob_status(phase, job_name, message) ==
    ("phase" :> phase) @@ ("lastUpdateTime" :> now)
    @@ (IF job_name # None THEN "jobName" :> job_name[1] ELSE EmptyDict)
    @@ (IF message # None THEN "message" :> message[1] ELSE EmptyDict)

Event(type, reason, message) ==
    [type |-> type, reason |-> reason, message |-> message]

Reasons == {"JobCreated", "JobSucceeded", "JobFailed"}

\* the event counts after posting the events of `posted`
Posted(counts, posted) ==
    [r \in Reasons |->
        counts[r] + Cardinality({i \in DOMAIN posted : posted[i].reason = r})]

\* what a handler invocation did: the API calls it made, the status patch it
\* produced, the events it posted, and how it ended (error: the reason of the
\* ApiException it caught, if any)
Did(op, outcome, calls, patch, posted) ==
    [op |-> op, outcome |-> outcome, calls |-> calls, patch |-> patch,
     posted |-> posted, error |-> None]

\* how the cluster API answers create_namespaced_job: "ok", or the reason of
\* the ApiException it raises
CreateResponses == {"ok", "Forbidden", "Conflict"}

\* mutant: a rejected creation is recorded as Pending, without the reason
CreateRejectedPatch_pending(job_name, reason) ==
    update_paymentjob_status("Pending", Some(job_name),
                             Some(Msg("Job <job_name> created", 0)))

\* create_paymentjob, `except ApiException as e` around the creation: the
\* status it returns
CreateRejectedPatch(job_name, reason) ==
    update_paymentjob_status("Failed", Some(job_name),
                             Some(Msg("Failed to create Job: " \o reason, 0)))

\* @kopf.on.create: create_paymentjob.  readResp / createResp: how the
\* cluster API answers read_namespaced_job and create_namespaced_job
\* (readResp: "ok", or "error": an ApiException that is not a 404;
\* createResp: see CreateResponses).  The returned {'status': ...} is applied
\* to the resource's status as a merge patch.
create_paymentjob(readResp, createResp) ==
    /\ LET job_name == JobName
           existing_job == read_namespaced_job(job_name)
       IN
       IF readResp = "error"
       THEN \* e.status != 404: logged and raised
            /\ last' = Did("create", "raised", <<"read">>, EmptyDict, <<>>)
            /\ UNCHANGED <<job, status, events, jobsCreated, adopted>>
       ELSE IF existing_job # None
       THEN \* Job already exists, skipping creation
            LET phase == ExistingJobPhase(existing_job[1].status)
                patch == update_paymentjob_status(phase, Some(job_name), None)
            IN /\ status' = Merge(status, patch)
               /\ last' = Did("create", "exists", <<"read">>, patch, <<>>)
               /\ adopted' = TRUE
               /\ UNCHANGED <<job, events, jobsCreated>>
       ELSE IF createResp = "ok"
       THEN LET patch == update_paymentjob_status("Pending", Some(job_name),
                             Some(Msg("Job <job_name> created", 0)))
                ev == Event("info", "JobCreated", Msg("Created Job <job_name>", 0))
            IN /\ job' = Some(NewJob(job_name))
               /\ jobsCreated' = jobsCreated + 1
               /\ status' = Merge(status, patch)
               /\ events' = Posted(events, <<ev>>)
               /\ last' = Did("create", "created", <<"read", "create">>, patch, <<ev>>)
               /\ UNCHANGED adopted
       ELSE \* create_namespaced_job raised ApiException
            LET patch == CreateRejectedPatch(job_name, createResp)
            IN /\ status' = Merge(status, patch)
               /\ last' = [Did("create", "rejected", <<"read", "create">>, patch, <<>>)
                              EXCEPT !.error = Some(createResp)]
               /\ UNCHANGED <<job, events, jobsCreated, adopted>>
    /\ UNCHANGED <<now, named>>

\* mutant: every tick is taken for a phase change
PhaseChangedAlways(new_phase, current_phase) == TRUE

\* monitor_job_status: `if new_phase != current_phase`
PhaseChanged(new_phase, current_phase) == new_phase # current_phase

\* the status fields monitor_job_status writes into patch.status when the
\* phase changed, at time t
TimerPatch(derived, job_name, t) ==
    ("phase" :> derived.phase) @@ ("lastUpdateTime" :> t)
    @@ ("jobName" :> job_name) @@ ("message" :> derived.message)
    @@ (IF derived.phase = "Running" /\ "startTime" \notin DOMAIN status
        THEN "startTime" :> t
        ELSE IF derived.phase \in {"Succeeded", "Failed"}
        THEN "completionTime" :> t
        ELSE EmptyDict)

\* mutant: a tick that posts no event
TimerEvents_silent(derived) == <<>>

\* the events monitor_job_status posts for a phase transition
TimerEvents(derived) ==
    IF derived.phase = "Succeeded"
    THEN <<Event("info", "JobSucceeded", Msg("Job <job_name> completed successfully", 0))>>
    ELSE IF derived.phase = "Failed"
    THEN <<Event("warn", "JobFailed", derived.message)>>
    ELSE <<>>

\* mutant: a tick that records Pending when the Job is not found
NotFoundPatch_pending == "phase" :> "Pending"

\* monitor_job_status, `if e.status == 404: return`: patch.status as the tick
\* leaves it
NotFoundPatch == EmptyDict

\* @kopf.timer(interval=10.0, sharp=True): monitor_job_status, one tick
monitor_job_status(readResp) ==
    /\ now < MaxTime
    /\ now' = now + 1
    /\ LET job_name == IF "jobName" \in DOMAIN status THEN status["jobName"]
                       ELSE JobName
           found == read_namespaced_job(job_name)
       IN
       IF readResp = "error"
       THEN /\ last' = Did("timer", "raised", <<"read">>, EmptyDict, <<>>)
            /\ UNCHANGED <<status, events>>
       ELSE IF found = None
       THEN \* 404: Job doesn't exist yet or was deleted
            /\ status' = Merge(status, NotFoundPatch)
            /\ last' = Did("timer", "notfound", <<"read">>, NotFoundPatch, <<>>)
            /\ UNCHANGED events
       ELSE LET current_phase == Get(status, "phase", "Pending")
                derived == DerivePhase(found[1].status)
            IN IF PhaseChanged(derived.phase, current_phase)
               THEN LET patch == TimerPatch(derived, job_name, now')
                        posted == TimerEvents(derived)
                    IN /\ status' = Merge(status, patch)
                       /\ events' = Posted(events, posted)
                       /\ last' = Did("timer", derived.phase, <<"read">>, patch, posted)
               ELSE /\ last' = Did("timer", derived.phase, <<"read">>, EmptyDict, <<>>)
                    /\ UNCHANGED <<status, events>>
    /\ UNCHANGED <<job, jobsCreated, adopted, named>>

\* mutant: the update handler re-stamps the status as a fresh resource's
SpecUpdateStatus_restamped ==
    update_paymentjob_status("Pending", None,
        Some(Msg("Spec updates are not applied to running Jobs. Delete and recreate.", 0)))

\* update_paymentjob: the status it returns
SpecUpdateStatus ==
    "message" :> Msg("Spec updates are not applied to running Jobs. Delete and recreate.", 0)

\* @kopf.on.update(field='spec'): update_paymentjob
update_paymentjob ==
    LET patch == SpecUpdateStatus
    IN /\ status' = Merge(status, patch)
       /\ last' = Did("update", "ignored", <<>>, patch, <<>>)
       /\ UNCHANGED <<job, now, events, jobsCreated, adopted, named>>

\* a counter of finished pods is never taken back: once reported it stays
\* reported and does not decrease
NeverTakenBack(old, new) ==
    IF old = None THEN TRUE ELSE IF new = None THEN FALSE ELSE new[1] >= old[1]

\* the cluster's Job controller reports new counters and conditions: the
\* active counter moves freely, succeeded, failed and conditions only grow
JobStatusChanges(js) ==
    /\ job # None
    /\ js # job[1].status
    /\ NeverTakenBack(job[1].status.succeeded, js.succeeded)
    /\ NeverTakenBack(job[1].status.failed, js.failed)
    /\ job[1].status.conditions # None => js.conditions = job[1].status.conditions
    /\ job' = Some([job[1] EXCEPT !.status = js])
    /\ last' = Did("cluster", "changed", <<>>, EmptyDict, <<>>)
    /\ UNCHANGED <<status, now, events, jobsCreated, adopted, named>>

\* the statuses one report of the controller away from js: one field changed
OneFieldFrom(js) ==
    {[js EXCEPT !.active = c] : c \in Counters}
    \cup {[js EXCEPT !.succeeded = c] : c \in Counters}
    \cup {[js EXCEPT !.failed = c] : c \in Counters}
    \cup {[js EXCEPT !.conditions = c] : c \in Conditions}

OpInit ==
    /\ job = None
    /\ status = EmptyDict
    /\ now = 0
    /\ events = [r \in Reasons |-> 0]
    /\ jobsCreated = 0
    /\ last = Did("init", "", <<>>, EmptyDict, <<>>)
    /\ adopted = FALSE
    /\ named = None

WkIdle ==
    /\ maxMessages = None
    /\ bodies = <<>>
    /\ ready = {}
    /\ cur = None
    /\ pc = "off"
    /\ pgConn = "none"
    /\ dbUp = TRUE
    /\ rows = <<>>
    /\ acked = {}
    /\ dropped = {}
    /\ processed = 0
    /\ outages = 0
    /\ attempt = 0
    /\ exitStatus = None
    /\ crashes = [n |-> 0, committed |-> <<>>]
    /\ environ = {}
    /\ rmqConn = "none"
    /\ replaced = 0

Init == OpInit /\ WkIdle

Next ==
    \/ \E r \in {"ok", "error"}, c \in CreateResponses :
           create_paymentjob(r, c) /\ UNCHANGED wkVars
    \/ \E r \in {"ok", "error"} : monitor_job_status(r) /\ UNCHANGED wkVars
    \/ update_paymentjob /\ UNCHANGED wkVars
    \/ \E js \in (IF job = None THEN {} ELSE OneFieldFrom(job[1].status)) :
           JobStatusChanges(js) /\ UNCHANGED wkVars

Spec == Init /\ [][Next]_vars

(***************************************************************************)
(* get_job_name on its own: called with any name and namespace.            *)
(***************************************************************************)
RECURSIVE Repeat(_, _)
Repeat(c, n) == IF n = 0 THEN "" ELSE Repeat(c, n - 1) \o c

\* resource names: the one reconciled above and names of every length up to
\* MaxNameLen
ResourceNames == {Name} \cup {Repeat("a", n) : n \in 1..MaxNameLen}

Namespaces == {Namespace, "default", "ops"}

CallGetJobName(paymentjob_name, namespace) ==
    /\ named' = Some([paymentjob_name |-> paymentjob_name,
                      namespace |-> namespace,
                      job_name |-> get_job_name(paymentjob_name, namespace)])
    /\ UNCHANGED <<job, status, now, events, jobsCreated, last, adopted>>

NameNext ==
    \E n \in ResourceNames, ns \in Namespaces :
        CallGetJobName(n, ns) /\ UNCHANGED wkVars

NameSpec == Init /\ [][NameNext]_vars

(***************************************************************************)
(* WORKER: src/worker/main.py                                              *)
(***************************************************************************)
Messages == 1..NumMsgs

\* the configuration variables read with get_env, lines 36-45
ConfigNames ==
    {"RABBITMQ_HOST", "RABBITMQ_PORT", "RABBITMQ_USER", "RABBITMQ_PASS",
     "POSTGRES_HOST", "POSTGRES_PORT", "POSTGRES_DB", "POSTGRES_USER",
     "POSTGRES_PASS", "QUEUE_NAME"}

\* message bodies, as bytes: "{}", "1", "{" (not JSON) and 0xFF (not UTF-8)
Bodies == { <<123, 125>>, <<49>>, <<123>>, <<255>> }

\* body.decode('utf-8'): no byte of a body over these bytes but 0xFF is
\* outside ASCII, and 0xFF starts no UTF-8 sequence; None: UnicodeDecodeError
Utf8Decode(body) ==
    IF \A i \in DOMAIN body : body[i] < 128 THEN Some(body) ELSE None

\* json.loads(text) on the texts over these characters: a document is the
\* number 1 or the empty object; None: JSONDecodeError
JsonLoads(text) ==
    IF text = <<49>> THEN Some([kind |-> "number", value |-> 1])
    ELSE IF text = <<123, 125>> THEN Some([kind |-> "object", value |-> 0])
    ELSE None

\* int(s) of a string of decimal digits (given as the digits' values)
RECURSIVE IntOf(_)
IntOf(digits) ==
    IF digits = <<>> THEN 0
    ELSE 10 * IntOf(SubSeq(digits, 1, Len(digits) - 1)) + digits[Len(digits)]

\* lines 46-48: MAX_MESSAGES = os.environ.get('MAX_MESSAGES'), converted
\* with int() when it is a non-empty string.  env: None (not set) or the
\* string; an empty string stays as it is and is false wherever it is tested,
\* as None is
ParseMaxMessages(env) ==
    IF env = None THEN None
    ELSE IF env[1] = <<>> THEN None
    ELSE Some(IntOf(env[1]))

\* the values of MAX_MESSAGES in the worker's environment: not set, empty,
\* or the decimal string of a number up to MaxCap
MaxMessagesEnv ==
    {None, Some(<<>>)} \cup {Some(<<n>>) : n \in 0..MaxCap}

\* `MAX_MESSAGES and self.messages_processed >= MAX_MESSAGES`
CapReached(cap, count) == cap # None /\ cap[1] # 0 /\ count >= cap[1]

\* mutant: insert_payment swallows the storage error and returns
insert_payment_swallows(conn, up) ==
    IF conn = "ok" /\ up THEN "committed" ELSE "returned"

\* insert_payment(conn, ...): INSERT and commit on the connection held;
\* "committed", or "error" (psycopg2.Error) when the connection is broken or
\* the server is down
insert_payment(conn, up) ==
    IF conn = "ok" /\ up THEN "committed" ELSE "error"

\* mutant: an INSERT that leaves one row per message however often it runs
RowsAfterInsert_once(rws, m) == [rws EXCEPT ![m] = 1]

\* table payments after insert_payment committed the row of message m: a new
\* row each time (id SERIAL, no unique constraint on message_id)
RowsAfterInsert(rws, m) == [rws EXCEPT ![m] = rws[m] + 1]

\* mutant: the handler does not reconnect after a storage error
get_postgres_connection_skipped(conn, up) == conn

\* the reconnect in the psycopg2.Error handler: self.pg_conn after
\* `self.pg_conn = get_postgres_connection()` inside try/except Exception
get_postgres_connection(conn, up) == IF up THEN "ok" ELSE conn

max_retries == 10   \* of both retry loops

\* mutant: one attempt more than max_retries
RetryLeft_one_more(a) == a <= max_retries

\* `if attempt < max_retries`: sleep and try again; else raise
RetryLeft(a) == a < max_retries

\* setup(), lines 148-163: one pass of the PostgreSQL retry loop; on success
\* the loop is left and the migrations run; when no retry is left the
\* OperationalError is raised and main() exits with 1
ConnectPostgres ==
    /\ pc = "connect_pg"
    /\ IF dbUp
       THEN /\ pgConn' = "ok"
            /\ attempt' = 0
            /\ pc' = "connect_rmq"
            /\ UNCHANGED exitStatus
       ELSE IF RetryLeft(attempt + 1)
       THEN /\ attempt' = attempt + 1
            /\ UNCHANGED <<pgConn, pc, exitStatus>>
       ELSE /\ attempt' = attempt + 1
            /\ pc' = "failed"
            /\ exitStatus' = Some(1)
            /\ UNCHANGED pgConn
    /\ UNCHANGED <<environ, maxMessages, bodies, ready, cur, dbUp, rows, acked,
                   dropped, processed, outages, crashes, rmqConn, replaced>>

\* get_rabbitmq_connection, lines 118-130, and the rest of setup(): one pass
\* of the RabbitMQ retry loop (up: whether the broker accepts the
\* connection); on success the channel is opened and consuming starts; when
\* no retry is left the AMQPConnectionError is raised and main() exits with 1
ConnectRabbitMQ(up) ==
    /\ pc = "connect_rmq"
    /\ IF up
       THEN /\ attempt' = 0
            /\ rmqConn' = "ok"
            /\ pc' = "idle"
            /\ UNCHANGED exitStatus
       ELSE IF RetryLeft(attempt + 1)
       THEN /\ attempt' = attempt + 1
            /\ UNCHANGED <<pc, exitStatus, rmqConn>>
       ELSE \* main(): except Exception, sys.exit(1); cleanup() is not called
            /\ attempt' = attempt + 1
            /\ pc' = "failed"
            /\ exitStatus' = Some(1)
            /\ UNCHANGED rmqConn
    /\ UNCHANGED <<environ, maxMessages, bodies, ready, cur, pgConn, dbUp, rows,
                   acked, dropped, processed, outages, crashes, replaced>>

ConnectRabbitMQAny == \E up \in BOOLEAN : ConnectRabbitMQ(up)

\* the delivery not yet acked or nacked, which the broker puts back on the
\* queue when the consumer's connection goes away
Unacked == IF pc \in {"parse", "insert", "ack"} THEN {cur[1].msg} ELSE {}

\* cleanup(), lines 253-265, on one connection object: closed when it was
\* opened and is not closed yet
cleanup(conn) == IF conn \in {"ok", "broken"} THEN "closed" ELSE conn

\* run(), lines 244-251: KeyboardInterrupt (SIGINT) is raised wherever the
\* main thread is, inside process_message too, where no except clause
\* catches it (it is no Exception); run() catches it, stops consuming and
\* cleans up, and main() exits with 0
Interrupt ==
    /\ pc \in {"idle", "parse", "insert", "ack"}
    /\ pc' = "interrupted"
    /\ exitStatus' = Some(0)
    /\ ready' = ready \cup Unacked
    /\ rmqConn' = cleanup(rmqConn)
    /\ pgConn' = cleanup(pgConn)
    /\ UNCHANGED <<environ, maxMessages, bodies, cur, dbUp, rows, acked, dropped,
                   processed, outages, attempt, crashes, replaced>>

\* the worker process is killed (SIGKILL, out of memory, node failure) and
\* the Job's pod template (restart_policy OnFailure) starts it again: a new
\* process that begins with setup()
CrashAndRestart ==
    /\ exitStatus = None
    /\ crashes.n < MaxCrashes
    /\ crashes' = [n |-> crashes.n + 1,
                   committed |->
                       IF Unacked # {} /\ cur[1].committed
                       THEN [crashes.committed EXCEPT ![cur[1].msg] = @ + 1]
                       ELSE crashes.committed]
    /\ ready' = ready \cup Unacked
    /\ cur' = None
    /\ pc' = "connect_pg"
    /\ attempt' = 0
    /\ pgConn' = "none"
    /\ rmqConn' = "none"
    /\ replaced' = 0
    /\ processed' = 0
    /\ UNCHANGED <<environ, maxMessages, bodies, dbUp, rows, acked, dropped,
                   outages, exitStatus>>

\* a delivery handed to process_message
Delivery(m) ==
    [msg |-> m, committed |-> FALSE, disp |-> "none", error |-> "none",
     reconnect |-> "none", second |-> "none"]

\* the broker hands a ready message to the consumer (prefetch_count=1: only
\* when no delivery is unacknowledged)
Deliver(m) ==
    /\ pc = "idle"
    /\ m \in ready
    /\ ready' = ready \ {m}
    /\ cur' = Some(Delivery(m))
    /\ pc' = "parse"
    /\ UNCHANGED <<environ, maxMessages, bodies, pgConn, dbUp, rows, acked,
                   dropped, processed, outages, attempt, exitStatus, crashes,
                   rmqConn, replaced>>

\* process_message, lines 186-192: decode and parse the body
Parse ==
    /\ pc = "parse"
    /\ LET d == cur[1]
           text == Utf8Decode(bodies[d.msg])
       IN
       IF text = None
       THEN \* UnicodeDecodeError is no JSONDecodeError: `except Exception`,
            \* basic_nack(requeue=True)
            /\ cur' = Some([d EXCEPT !.disp = "nack_requeue", !.error = "unicode"])
            /\ ready' = ready \cup {d.msg}
            /\ pc' = "idle"
            /\ UNCHANGED dropped
       ELSE IF JsonLoads(text[1]) = None
       THEN \* JSONDecodeError: basic_nack(requeue=False), return
            /\ cur' = Some([d EXCEPT !.disp = "nack_drop", !.error = "json"])
            /\ dropped' = dropped \cup {d.msg}
            /\ pc' = "idle"
            /\ UNCHANGED ready
       ELSE /\ pc' = "insert"
            /\ UNCHANGED <<cur, ready, dropped>>
    /\ UNCHANGED <<environ, maxMessages, bodies, pgConn, dbUp, rows, acked,
                   processed, outages, attempt, exitStatus, crashes, rmqConn,
                   replaced>>

\* process_message, lines 196-202 and the two except clauses: insert_payment,
\* or an unexpected error raised before it (fault)
Insert(fault) ==
    /\ pc = "insert"
    /\ LET d == cur[1]
           r == insert_payment(pgConn, dbUp)
       IN
       IF fault
       THEN \* except Exception: basic_nack(requeue=True)
            /\ cur' = Some([d EXCEPT !.disp = "nack_requeue", !.error = "unexpected"])
            /\ ready' = ready \cup {d.msg}
            /\ pc' = "idle"
            /\ UNCHANGED <<rows, pgConn, replaced>>
       ELSE IF r = "error"
       THEN \* except psycopg2.Error: basic_nack(requeue=True), reconnect
            LET conn == get_postgres_connection(pgConn, dbUp) IN
            /\ pgConn' = conn
            /\ replaced' = IF conn = pgConn THEN replaced ELSE replaced + 1
            /\ cur' = Some([d EXCEPT !.disp = "nack_requeue", !.error = "storage",
                                     !.reconnect = IF conn = pgConn THEN "failed"
                                                   ELSE "ok"])
            /\ ready' = ready \cup {d.msg}
            /\ pc' = "idle"
            /\ UNCHANGED rows
       ELSE /\ rows' = IF r = "committed" THEN RowsAfterInsert(rows, d.msg) ELSE rows
            /\ cur' = Some([d EXCEPT !.committed = (r = "committed")])
            /\ pc' = "ack"
            /\ UNCHANGED <<ready, pgConn, replaced>>
    /\ UNCHANGED <<environ, maxMessages, bodies, dbUp, acked, dropped, processed,
                   outages, attempt, exitStatus, crashes, rmqConn>>

\* process_message, lines 206-215: basic_ack, count, the MAX_MESSAGES check
\* and stop_consuming, after which run() returns and main() exits with 0
Ack ==
    /\ pc = "ack"
    /\ cur' = Some([cur[1] EXCEPT !.disp = "ack"])
    /\ acked' = acked \cup {cur[1].msg}
    /\ processed' = processed + 1
    /\ pc' = IF CapReached(maxMessages, processed') THEN "stopped" ELSE "idle"
    /\ exitStatus' = IF CapReached(maxMessages, processed') THEN Some(0) ELSE None
    /\ rmqConn' = IF CapReached(maxMessages, processed') THEN cleanup(rmqConn)
                  ELSE rmqConn
    /\ pgConn' = IF CapReached(maxMessages, processed') THEN cleanup(pgConn)
                 ELSE pgConn
    /\ UNCHANGED <<environ, maxMessages, bodies, ready, dbUp, rows, dropped,
                   outages, attempt, crashes, replaced>>

\* process_message, lines 206-215 and 230-233: basic_ack is sent, then
\* stop_consuming raises (the one step after the ack that talks to the
\* broker); `except Exception` calls basic_nack(requeue=True) for the
\* delivery tag already acked.  chanOpen: whether the channel still takes the
\* nack; if it does, the broker closes the channel on the unknown tag, if not
\* basic_nack raises: either way the error leaves start_consuming, run()
\* cleans up and main() exits with 1
AckThenFault(chanOpen) ==
    /\ pc = "ack"
    /\ CapReached(maxMessages, processed + 1)
    /\ cur' = Some([cur[1] EXCEPT !.disp = "ack", !.error = "unexpected",
                                  !.second = IF chanOpen THEN "nack_requeue"
                                             ELSE "nack_raised"])
    /\ acked' = acked \cup {cur[1].msg}
    /\ processed' = processed + 1
    /\ pc' = "aborted"
    /\ exitStatus' = Some(1)
    /\ rmqConn' = cleanup(rmqConn)
    /\ pgConn' = cleanup(pgConn)
    /\ UNCHANGED <<environ, maxMessages, bodies, ready, dbUp, rows, dropped,
                   outages, attempt, crashes, replaced>>

\* PostgreSQL goes away: the connection the worker holds is lost with it
DbFails ==
    /\ dbUp
    /\ exitStatus = None
    /\ outages < MaxOutages
    /\ outages' = outages + 1
    /\ dbUp' = FALSE
    /\ pgConn' = IF pgConn = "ok" THEN "broken" ELSE pgConn
    /\ UNCHANGED <<environ, maxMessages, bodies, ready, cur, pc, rows, acked,
                   dropped, processed, attempt, exitStatus, crashes, rmqConn,
                   replaced>>

\* PostgreSQL is back; a connection lost stays lost
DbRecovers ==
    /\ ~dbUp
    /\ dbUp' = TRUE
    /\ UNCHANGED <<environ, maxMessages, bodies, ready, cur, pc, pgConn, rows,
                   acked, dropped, processed, outages, attempt, exitStatus,
                   crashes, rmqConn, replaced>>

\* the published messages: every choice of bodies, the messages numbered in
\* the order of their bodies (by length, then first byte), as the broker
\* delivers them in any order
Published ==
    {b \in [Messages -> Bodies] :
        \A i, j \in Messages :
            i < j => \/ Len(b[i]) < Len(b[j])
                     \/ Len(b[i]) = Len(b[j]) /\ b[i][1] <= b[j][1]}

\* the worker process as main() starts it: no connection yet, a queue that
\* holds the published messages
WkInit ==
    /\ maxMessages \in {ParseMaxMessages(e) : e \in MaxMessagesEnv}
    /\ bodies \in Published
    /\ ready = Messages
    /\ cur = None
    /\ pc = "connect_pg"
    /\ pgConn = "none"
    /\ dbUp = TRUE
    /\ rows = [m \in Messages |-> 0]
    /\ acked = {}
    /\ dropped = {}
    /\ processed = 0
    /\ outages = 0
    /\ attempt = 0
    /\ exitStatus = None
    /\ crashes = [n |-> 0, committed |-> [m \in Messages |-> 0]]
    /\ environ = ConfigNames
    /\ rmqConn = "none"
    /\ replaced = 0

WkNext ==
    \/ ConnectPostgres /\ UNCHANGED opVars
    \/ ConnectRabbitMQAny /\ UNCHANGED opVars
    \/ Interrupt /\ UNCHANGED opVars
    \/ CrashAndRestart /\ UNCHANGED opVars
    \/ \E m \in Messages : Deliver(m) /\ UNCHANGED opVars
    \/ Parse /\ UNCHANGED opVars
    \/ \E fault \in BOOLEAN : Insert(fault) /\ UNCHANGED opVars
    \/ Ack /\ UNCHANGED opVars
    \/ \E chanOpen \in BOOLEAN : AckThenFault(chanOpen) /\ UNCHANGED opVars
    \/ DbFails /\ UNCHANGED opVars
    \/ DbRecovers /\ UNCHANGED opVars

WorkerInit == OpInit /\ WkInit

(***************************************************************************)
(* The worker's configuration, read when the module is loaded.             *)
(***************************************************************************)
\* the default each get_env call passes, lines 36-45
Defaults ==
    [RABBITMQ_HOST |-> Some("localhost"), RABBITMQ_PORT |-> Some("5672"),
     RABBITMQ_USER |-> Some("guest"), RABBITMQ_PASS |-> Some("guest"),
     POSTGRES_HOST |-> Some("localhost"), POSTGRES_PORT |-> Some("5432"),
     POSTGRES_DB |-> Some("payments_db"), POSTGRES_USER |-> Some("postgres"),
     POSTGRES_PASS |-> Some("postgres"), QUEUE_NAME |-> Some("payments")]

\* os.environ.get(name, default)
EnvironGet(name, default) ==
    IF name \in environ THEN Some("$" \o name) ELSE default

\* get_env(name, default, required): the value returned, or sys.exit(1) when
\* the value is required and None
get_env(name, default, required) ==
    LET value == EnvironGet(name, default)
    IN [exit |-> required /\ value = None, value |-> value]

\* lines 36-45: the ten module-level get_env calls (required is left at its
\* default True in each)
LoadConfig ==
    /\ pc = "import"
    /\ LET loaded == [n \in ConfigNames |-> get_env(n, Defaults[n], TRUE)]
       IN IF \E n \in ConfigNames : loaded[n].exit
          THEN pc' = "failed" /\ exitStatus' = Some(1)
          ELSE pc' = "connect_pg" /\ UNCHANGED exitStatus
    /\ UNCHANGED <<environ, maxMessages, bodies, ready, cur, pgConn, dbUp, rows,
                   acked, dropped, processed, outages, attempt, crashes,
                   rmqConn, replaced>>

\* the worker process as the interpreter starts it, in any environment
EnvInit ==
    /\ OpInit
    /\ environ \in SUBSET ConfigNames
    /\ maxMessages = None
    /\ bodies = [m \in Messages |-> <<123, 125>>]
    /\ ready = Messages
    /\ cur = None
    /\ pc = "import"
    /\ pgConn = "none"
    /\ dbUp = TRUE
    /\ rows = [m \in Messages |-> 0]
    /\ acked = {}
    /\ dropped = {}
    /\ processed = 0
    /\ outages = 0
    /\ attempt = 0
    /\ exitStatus = None
    /\ crashes = [n |-> 0, committed |-> [m \in Messages |-> 0]]
    /\ rmqConn = "none"
    /\ replaced = 0

EnvNext ==
    \/ LoadConfig /\ UNCHANGED opVars
    \/ ConnectPostgres /\ UNCHANGED opVars
    \/ ConnectRabbitMQAny /\ UNCHANGED opVars

EnvSpec == EnvInit /\ [][EnvNext]_vars

WorkerSpec == WorkerInit /\ [][WkNext]_vars

\* the worker with no processing cap, no unexpected error, no signal and no
\* crash, a broker that keeps delivering every queued message, and an outage
\* that ends
LiveNext ==
    \/ ConnectPostgres /\ UNCHANGED opVars
    \/ ConnectRabbitMQAny /\ UNCHANGED opVars
    \/ \E m \in Messages : Deliver(m) /\ UNCHANGED opVars
    \/ Parse /\ UNCHANGED opVars
    \/ Insert(FALSE) /\ UNCHANGED opVars
    \/ Ack /\ UNCHANGED opVars
    \/ DbFails /\ UNCHANGED opVars
    \/ DbRecovers /\ UNCHANGED opVars

LiveInit == OpInit /\ WkInit /\ maxMessages = None

Redelivery(m) == SF_vars(Deliver(m) /\ UNCHANGED opVars)

WorkerLive ==
    /\ LiveInit
    /\ [][LiveNext]_vars
    /\ \A m \in Messages : Redelivery(m)
    /\ WF_vars(ConnectPostgres /\ UNCHANGED opVars)
    /\ WF_vars(ConnectRabbitMQAny /\ UNCHANGED opVars)
    /\ WF_vars(Parse /\ UNCHANGED opVars)
    /\ WF_vars(Insert(FALSE) /\ UNCHANGED opVars)
    /\ WF_vars(Ack /\ UNCHANGED opVars)
    /\ WF_vars(DbRecovers /\ UNCHANGED opVars)

(***************************************************************************)
(* Claims about the reconciler (checked under Spec).                       *)
(***************************************************************************)
Phases == {"Pending", "Running", "Succeeded", "Failed"}

\* the order Pending < Running < {Succeeded, Failed}
Rank(p) == IF p = "Pending" THEN 0 ELSE IF p = "Running" THEN 1 ELSE 2

\* the phase recorded on the resource (none recorded reads as Pending)
Recorded(st) == Get(st, "phase", "Pending")

\* a counter with a missing value read as zero
Count(c) == IF c = None THEN 0 ELSE c[1]

\* C2: over any sequence of timer ticks, whatever counters each tick
\* observes, no tick lowers the recorded phase in the order
\* Pending < Running < {Succeeded, Failed}.
C2_TimerPhaseMonotonic ==
    [][last'.op = "timer" => Rank(Recorded(status')) >= Rank(Recorded(status))]_vars

C4_WriteOnChangeOnly ==
    [][last'.op = "timer" =>
          /\ (status' # status \/ events' # events) =>
                (job # None /\ DerivePhase(job[1].status).phase # Recorded(status))
          /\ (job # None /\ DerivePhase(job[1].status).phase = Recorded(status)) =>
                (status' = status /\ events' = events /\ last'.patch = EmptyDict)]_vars

\* C4 witness: a tick that derived Running for a resource recorded as Running
\* (with an earlier message on it) and wrote nothing
C4_Witness ==
    /\ last.op = "timer" /\ last.outcome = "Running" /\ last.patch = EmptyDict
    /\ Recorded(status) = "Running"
    /\ now >= 2

\* C8: after a tick that read the Job, the recorded phase is Succeeded if
\* succeeded > 0, else Failed if failed > 0, else Running if active > 0, else
\* Pending, a missing counter counting as zero; active and failed both
\* positive gives Failed.
C8_PhaseDeriverOrder ==
    (last.op = "timer" /\ last.outcome \in Phases) =>
        LET js == job[1].status
            s == Count(js.succeeded)
            f == Count(js.failed)
            a == Count(js.active)
        IN /\ (s > 0) => Recorded(status) = "Succeeded"
           /\ (s = 0 /\ f > 0) => Recorded(status) = "Failed"
           /\ (s = 0 /\ f = 0 /\ a > 0) => Recorded(status) = "Running"
           /\ (s = 0 /\ f = 0 /\ a = 0) => Recorded(status) = "Pending"
           /\ last.outcome = Recorded(status)

\* C8 witness: a tick observed active and failed both positive and a missing
\* succeeded counter, and recorded Failed
C8_Witness ==
    /\ last.op = "timer" /\ job # None
    /\ job[1].status.active = Some(1) /\ job[1].status.failed = Some(1)
    /\ job[1].status.succeeded = None
    /\ Recorded(status) = "Failed"

\* C9: completionTime is stamped exactly once: once it is on the status, no
\* handler invocation writes it again.
C9_CompletionTimeOnce ==
    []["completionTime" \in DOMAIN status =>
          "completionTime" \notin DOMAIN last'.patch]_vars

\* C10: startTime is stamped on the first entry of the recorded phase into
\* Running and never overwritten: a resource recorded as Running has a
\* startTime, and a startTime once written keeps its value.
C10_StartTimeOnFirstRunning ==
    [][/\ "startTime" \in DOMAIN status =>
              ("startTime" \in DOMAIN status'
               /\ status'["startTime"] = status["startTime"])
       /\ Recorded(status') = "Running" => "startTime" \in DOMAIN status']_vars

\* a string of hexadecimal digits
IsHex(s) == \A i \in 1..Len(s) : \E j \in 1..Len(HexDigits) : CharAt(s, i) = CharAt(HexDigits, j)

\* C12: for every (namespace, name) the value get_job_name returns is
\* <base>-<8 hexadecimal characters>, where <base> is "paymentjob-" + name cut
\* to its first 54 characters when longer, and the value is at most 63
\* characters long.
C12_JobNameForm ==
    named # None =>
        LET r == named[1].job_name
            full == "paymentjob-" \o named[1].paymentjob_name
            base == IF Len(full) <= 54 THEN full ELSE SubSeq(full, 1, 54)
            digest == SubSeq(r, Len(base) + 2, Len(r))
        IN /\ Len(r) <= 63
           /\ SubSeq(r, 1, Len(base)) = base
           /\ CharAt(r, Len(base) + 1) = "-"
           /\ Len(digest) = 8 /\ IsHex(digest)

\* C12 witness: a name long enough for the base to be cut, giving a Job name
\* of 63 characters
C12_Witness ==
    /\ named # None
    /\ Len(named[1].paymentjob_name) > 43
    /\ Len(named[1].job_name) = 63

\* C14: a create handler that found no Job and whose creation the API
\* rejected made one creation call, created nothing, returned with phase
\* Failed and a message carrying the reason; one whose creation succeeded
\* returned with phase Pending and the Job's name recorded.
C14_CreateRejectedIsFailed ==
    /\ (last.op = "create" /\ last.outcome = "rejected") =>
           /\ Recorded(status) = "Failed"
           /\ last.error # None
           /\ status["message"].text = "Failed to create Job: " \o last.error[1]
           /\ last.calls = <<"read", "create">>
           /\ job = None /\ jobsCreated = 0
    /\ (last.op = "create" /\ last.outcome = "created") =>
           /\ Recorded(status) = "Pending"
           /\ "jobName" \in DOMAIN status /\ status["jobName"] = JobName
           /\ job # None /\ job[1].name = status["jobName"]
           /\ last.calls = <<"read", "create">>

\* C14 witness: a creation rejected as Forbidden, after an earlier tick
C14_Witness ==
    /\ last.op = "create" /\ last.outcome = "rejected"
    /\ last.error = Some("Forbidden")
    /\ now >= 1

\* C15: the update handler makes no API call and touches neither the Job nor
\* any status field but the message, which it sets to the delete-and-recreate
\* notice: phase, jobName, startTime, completionTime stay as they were.
C15_UpdateOnlySetsMessage ==
    [][last'.op = "update" =>
          /\ last'.calls = <<>>
          /\ job' = job /\ jobsCreated' = jobsCreated /\ events' = events
          /\ DOMAIN status' = DOMAIN status \cup {"message"}
          /\ \A k \in DOMAIN status \ {"message"} : status'[k] = status[k]
          /\ status'["message"].text =
                "Spec updates are not applied to running Jobs. Delete and recreate."]_vars

\* C15 witness: an update handled on a resource recorded as Succeeded with
\* its startTime and completionTime
C15_Witness ==
    /\ last.op = "update"
    /\ Recorded(status) = "Succeeded"
    /\ "startTime" \in DOMAIN status /\ "completionTime" \in DOMAIN status

\* C16: a JobSucceeded event (informational) is posted exactly by the timer
\* steps that change the recorded phase to Succeeded, and a JobFailed event (a
\* warning) exactly by those that change it to Failed, one event each; as long
\* as the create handler has not run again on the existing Job, exactly one
\* JobSucceeded event has been posted when the phase is Succeeded and none
\* otherwise, however many ticks followed.
C16_EventsOnTerminalTransition ==
    /\ [][/\ (events'["JobSucceeded"] # events["JobSucceeded"]) <=>
                (last'.op = "timer" /\ Recorded(status) # "Succeeded"
                 /\ Recorded(status') = "Succeeded")
          /\ (events'["JobFailed"] # events["JobFailed"]) <=>
                (last'.op = "timer" /\ Recorded(status) # "Failed"
                 /\ Recorded(status') = "Failed")
          /\ events'["JobSucceeded"] - events["JobSucceeded"] \in {0, 1}
          /\ events'["JobFailed"] - events["JobFailed"] \in {0, 1}
          /\ \A i \in DOMAIN last'.posted :
                /\ last'.posted[i].reason = "JobSucceeded" => last'.posted[i].type = "info"
                /\ last'.posted[i].reason = "JobFailed" => last'.posted[i].type = "warn"]_vars
    /\ [](~adopted =>
            events["JobSucceeded"] = IF Recorded(status) = "Succeeded" THEN 1 ELSE 0)

\* C16 witness: Pending, Running, Succeeded, and one more tick on the
\* succeeded Job: one JobSucceeded event
C16_Witness ==
    /\ ~adopted /\ events["JobSucceeded"] = 1
    /\ last.op = "timer" /\ last.outcome = "Succeeded" /\ last.patch = EmptyDict
    /\ "startTime" \in DOMAIN status
    /\ now = 3

\* C17: when the create handler finds the Job, the phase it records is the
\* phase the timer's derivation gives for the same counters.
C17_CreatePhaseIsDerivedPhase ==
    (last.op = "create" /\ last.outcome = "exists") =>
        Recorded(status) = DerivePhase(job[1].status).phase

\* C18: no step of any handler (create, update, timer), in any interleaving,
\* lowers the recorded phase in the order Pending < Running < {Succeeded,
\* Failed}.
C18_PhaseNeverRegresses ==
    [][Rank(Recorded(status')) >= Rank(Recorded(status))]_vars

\* C20: a tick whose read of the Job is answered not-found returns normally,
\* a tick whose read fails otherwise raises; neither writes the status nor
\* posts an event, so the status is what it was before the tick.
C20_TimerReadFailureWritesNothing ==
    [][last'.op = "timer" =>
          /\ (job = None /\ last'.outcome # "raised") => last'.outcome = "notfound"
          /\ last'.outcome = "notfound" => job = None
          /\ last'.outcome \in {"notfound", "raised"} =>
                /\ status' = status /\ events' = events /\ job' = job
                /\ last'.patch = EmptyDict /\ last'.posted = <<>>
                /\ last'.calls = <<"read">>]_vars

\* C20 witness: a not-found tick on a resource whose status holds a phase,
\* a timestamp and a message
C20_Witness ==
    /\ last.op = "timer" /\ last.outcome = "notfound"
    /\ Recorded(status) = "Failed"
    /\ "lastUpdateTime" \in DOMAIN status /\ "message" \in DOMAIN status

\* C25: whenever the recorded phase is Succeeded or Failed the status holds a
\* completionTime, whichever handler recorded the phase.
C25_TerminalHasCompletionTime ==
    Recorded(status) \in {"Succeeded", "Failed"} => "completionTime" \in DOMAIN status

(***************************************************************************)
(* Claims about the worker (checked under WorkerSpec and WorkerLive).      *)
(***************************************************************************)
\* a body that does not decode as UTF-8 or does not parse as JSON
Malformed(body) ==
    IF Utf8Decode(body) = None THEN TRUE
    ELSE JsonLoads(Utf8Decode(body)[1]) = None

\* C1: a delivery is positively acknowledged only after the insert for that
\* same delivery has committed: no acknowledged delivery, and no
\* acknowledged message, is without a committed row.
C1_AckOnlyAfterCommit ==
    /\ (cur # None /\ cur[1].disp = "ack") =>
           (cur[1].committed /\ rows[cur[1].msg] >= 1)
    /\ \A m \in acked : rows[m] >= 1

\* C1 witness: a message acknowledged with its one row, after a storage
\* outage had failed an earlier delivery
C1_Witness ==
    /\ cur # None /\ cur[1].disp = "ack" /\ outages = 1
    /\ rows[cur[1].msg] = 1 /\ cur[1].msg \in acked

\* C5: a delivery whose body is malformed (not UTF-8, or not JSON) is nacked
\* without requeue, is not put back on the queue, and leaves no row.
C5_MalformedRejected ==
    \A m \in Messages :
        Malformed(bodies[m]) =>
            /\ rows[m] = 0
            /\ m \notin acked
            /\ (cur # None /\ cur[1].msg = m /\ cur[1].disp # "none") =>
                   (cur[1].disp = "nack_drop" /\ m \in dropped /\ m \notin ready)

\* the last delivery handled was of m and failed with a storage error
StorageFailed(m) == cur # None /\ cur[1].msg = m /\ cur[1].error = "storage"

\* C6: a delivery that fails with a storage error is nacked with requeue
\* (not acked, not dropped) and a reconnect is attempted; when the outage
\* ends and the broker keeps redelivering, the message is eventually
\* persisted and acknowledged, also when a reconnect attempt failed.
C6_StorageErrorRequeuedThenPersisted ==
    /\ [](\A m \in Messages :
            StorageFailed(m) =>
                /\ cur[1].disp = "nack_requeue"
                /\ cur[1].reconnect \in {"ok", "failed"}
                /\ ~cur[1].committed
                /\ m \notin acked /\ m \notin dropped)
    /\ \A m \in Messages :
            StorageFailed(m) ~> (m \in acked /\ rows[m] >= 1)

\* C6 witness: a storage error whose reconnect attempt failed too
C6_Witness ==
    /\ cur # None /\ cur[1].error = "storage" /\ cur[1].reconnect = "failed"
    /\ cur[1].msg \in ready /\ ~dbUp

\* C7: with a cap of N (any integer accepted, 0 included) the worker
\* acknowledges exactly N messages and then stops: never more than N, and N
\* when it has stopped.
C7_CapExact ==
    maxMessages # None =>
        /\ Cardinality(acked) <= maxMessages[1]
        /\ processed <= maxMessages[1]
        /\ pc = "stopped" => Cardinality(acked) = maxMessages[1]

\* C11: the worker stops on a signal only between messages: when it has
\* exited on the signal, the last delivery it received was acked or nacked
\* (none is left received and undisposed, none committed and unacknowledged).
C11_StopOnlyBetweenMessages ==
    pc = "interrupted" => (cur = None \/ cur[1].disp # "none")

\* the retry loops of setup()
InSetup == pc \in {"connect_pg", "connect_rmq"}

\* C13: each retry loop of setup makes at most 10 attempts; when the 10th
\* fails the process exits with status 1, having received, acknowledged and
\* persisted nothing; a successful attempt ends its loop for good; and setup
\* always ends.
C13_SetupBounded ==
    /\ [](attempt <= 10)
    /\ [](pc = "failed" =>
            /\ attempt = 10
            /\ exitStatus = Some(1)
            /\ cur = None /\ processed = 0 /\ acked = {} /\ dropped = {}
            /\ ready = Messages
            /\ \A m \in Messages : rows[m] = 0)
    /\ [][/\ (pc = "connect_pg" /\ pgConn' = "ok") => pc' = "connect_rmq"
          /\ (pc = "connect_pg" /\ attempt' > attempt) => ~dbUp
          /\ pc = "connect_rmq" => pc' # "connect_pg"
          /\ ~InSetup => (~InSetup)']_vars
    /\ <>(~InSetup)

\* C13 witness: the broker refused all 10 attempts after the storage
\* connection had been made
C13_Witness ==
    pc = "failed" /\ attempt = 10 /\ pgConn = "ok" /\ exitStatus = Some(1)

\* the deliveries of m the worker had committed but not acknowledged when it
\* crashed
CommittedLost(m) == crashes.committed[m]

\* C19: a crash puts the delivery in flight back on the queue; a well-formed
\* message is never dropped and never acknowledged without a row, and once
\* acknowledged it has one row plus one for every crash that fell between its
\* commit and its acknowledgment: two after such a crash, exactly one when the
\* crash fell before the commit.
C19_CrashRedelivers ==
    /\ [](\A m \in Messages :
            ~Malformed(bodies[m]) =>
                /\ m \notin dropped
                /\ m \in acked => rows[m] = 1 + CommittedLost(m)
                /\ \/ m \in ready
                   \/ m \in acked
                   \/ cur # None /\ cur[1].msg = m /\ cur[1].disp = "none")
    /\ [][crashes'.n > crashes.n => Unacked \subseteq ready']_vars

\* C19 witness: a message acknowledged with two rows after a crash between
\* commit and acknowledgment
C19_Witness ==
    \E m \in Messages :
        m \in acked /\ rows[m] = 2 /\ CommittedLost(m) = 1

\* C21: a delivery whose processing raised an error that is neither a
\* malformed payload nor a storage error is nacked with requeue, once, and the
\* worker goes on consuming: the message is back on the queue, not
\* acknowledged and not dropped.
C21_UnexpectedErrorRequeues ==
    [][(cur' # None /\ cur' # cur /\ cur'[1].error = "unexpected") =>
          /\ cur'[1].disp = "nack_requeue"
          /\ cur'[1].second = "none"
          /\ pc' = "idle"
          /\ cur'[1].msg \in ready'
          /\ cur'[1].msg \notin acked'
          /\ cur'[1].msg \notin dropped']_vars

\* C22: when the worker process has exited, every connection it opened has
\* been closed: the broker connection, the storage connection it holds, and
\* the storage connections a reconnect replaced.
C22_ConnectionsClosedAtExit ==
    exitStatus # None =>
        /\ pgConn \in {"none", "closed"}
        /\ rmqConn \in {"none", "closed"}
        /\ replaced = 0

\* C24: no delivery tag is both acked and nacked, and once process_message
\* has returned the delivery has its disposition.
C24_ExactlyOneDisposition ==
    cur # None =>
        /\ ~(cur[1].disp # "none" /\ cur[1].second = "nack_requeue")
        /\ pc \in {"idle", "stopped", "aborted"} => cur[1].disp # "none"

\* C23: when a configuration variable is missing from the environment, the
\* process, once the configuration has been read, has exited with status 1
\* without a connection attempted.
C23_MissingConfigIsFatal ==
    (environ # ConfigNames /\ pc # "import") =>
        /\ exitStatus = Some(1)
        /\ pgConn = "none" /\ rmqConn = "none" /\ attempt = 0

====
